---- MODULE Spec2Model ----
(***************************************************************************)
(* SQL extraction and security validation gateway                          *)
(* (app/backend/sql_parser.py).                                            *)
(*                                                                         *)
(* A Python str is a sequence of one-character strings.  Every regular     *)
(* expression of the module is an operator that computes what the regex    *)
(* engine computes (leftmost match, lazy or greedy quantifier, \b, ^, $).  *)
(* One call of extract_sql is a small process whose program counter walks  *)
(* through the four pipeline stages and the except-handler.                *)
(***************************************************************************)
EXTENDS Integers, Sequences, FiniteSets, TLC

VARIABLES
    pc,              \* per call: position inside extract_sql
    input_text,      \* per call: the argument of extract_sql
    sanitized_text,  \* per call: local of extract_sql (unbound = <<>>)
    sql_candidate,   \* per call: local of extract_sql (unbound = <<>>)
    final_sql,       \* per call: local of extract_sql (unbound = <<>>)
    raised,          \* per call: the exception in flight (none = <<>>)
    returned,        \* per call: the value returned to the caller (none = <<>>)
    failure,         \* per call: the ValueError raised to the caller (none = <<>>)
    patterns         \* module global ILLEGAL_OPERATION_PATTERNS (a mutable list)

vars == <<pc, input_text, sanitized_text, sql_candidate, final_sql,
          raised, returned, failure, patterns>>

-----------------------------------------------------------------------------
(* Characters *)

LowerCase == <<"a","b","c","d","e","f","g","h","i","j","k","l","m",
               "n","o","p","q","r","s","t","u","v","w","x","y","z">>

UpperCase == <<"A","B","C","D","E","F","G","H","I","J","K","L","M",
               "N","O","P","Q","R","S","T","U","V","W","X","Y","Z">>

Digits == {"0","1","2","3","4","5","6","7","8","9"}

LowerSet == {LowerCase[i] : i \in DOMAIN LowerCase}

UpperSet == {UpperCase[i] : i \in DOMAIN UpperCase}

UpperMap == [c \in LowerSet |-> UpperCase[CHOOSE i \in DOMAIN LowerCase : LowerCase[i] = c]]

\* re.IGNORECASE compares letters without regard to case
Upper(c) == IF c \in LowerSet THEN UpperMap[c] ELSE c

\* the character U+0060 (the grave accent cannot be written inside a TLA+ string)
Backtick == "BACKTICK"

\* \s of the re module and the characters str.strip() removes
Whitespace == {" ", "\t", "\n", "\r", "\f"}

IsSpace(c) == c \in Whitespace

\* \w of the re module
IsWord(c) == c \in LowerSet \cup UpperSet \cup Digits \cup {"_"}

-----------------------------------------------------------------------------
(* str helpers *)

Min(S) == CHOOSE x \in S : \A y \in S : x <= y

\* s[i:] with a 1-based index
Tail_(s, i) == SubSeq(s, i, Len(s))

\* Faulty variant: the literal is compared without re.IGNORECASE
MatchesAt_CaseSensitive(s, i, w) ==
    /\ i >= 1
    /\ i + Len(w) - 1 <= Len(s)
    /\ \A k \in 1..Len(w) : s[i + k - 1] = w[k]

\* the upper-case literal w matches s at index i, ignoring case
MatchesAt(s, i, w) ==
    /\ i >= 1
    /\ i + Len(w) - 1 <= Len(s)
    /\ \A k \in 1..Len(w) : Upper(s[i + k - 1]) = w[k]

\* the literal w matches s at index i, case-sensitively
LiteralAt(s, i, w) ==
    /\ i >= 1
    /\ i + Len(w) - 1 <= Len(s)
    /\ \A k \in 1..Len(w) : s[i + k - 1] = w[k]

WordAt(s, i) == i >= 1 /\ i <= Len(s) /\ IsWord(s[i])

\* \b between s[i-1] and s[i]
Boundary(s, i) == WordAt(s, i - 1) # WordAt(s, i)

\* str.lstrip()
LStrip(s) ==
    IF \A i \in 1..Len(s) : IsSpace(s[i]) THEN <<>>
    ELSE Tail_(s, Min({i \in 1..Len(s) : ~IsSpace(s[i])}))

\* str.rstrip()
RStrip(s) ==
    IF \A i \in 1..Len(s) : IsSpace(s[i]) THEN <<>>
    ELSE SubSeq(s, 1, CHOOSE i \in 1..Len(s) :
                        /\ ~IsSpace(s[i])
                        /\ \A j \in (i + 1)..Len(s) : IsSpace(s[j]))

\* str.strip()
Strip(s) == LStrip(RStrip(s))

\* str.startswith / str.endswith for a one-character argument
StartsWith(s, c) == Len(s) >= 1 /\ s[1] = c

EndsWith(s, c) == Len(s) >= 1 /\ s[Len(s)] = c

-----------------------------------------------------------------------------
(* _clean_input_text *)

\* Faulty variant: a block comment is replaced by the empty string
RECURSIVE SubBlockComments_Joining(_, _)
SubBlockComments_Joining(s, i) ==
    IF i > Len(s) THEN <<>>
    ELSE LET closes == {j \in (i + 2)..(Len(s) - 1) : LiteralAt(s, j, <<"*", "/">>)}
         IN  IF LiteralAt(s, i, <<"/", "*">>) /\ closes # {}
             THEN SubBlockComments_Joining(s, Min(closes) + 2)
             ELSE <<s[i]>> \o SubBlockComments_Joining(s, i + 1)

\* Faulty variant: the quantifier is greedy, an opener is paired with the
\* last closer of the text
RECURSIVE SubBlockComments_Greedy(_, _)
SubBlockComments_Greedy(s, i) ==
    IF i > Len(s) THEN <<>>
    ELSE LET closes == {j \in (i + 2)..(Len(s) - 1) : LiteralAt(s, j, <<"*", "/">>)}
         IN  IF LiteralAt(s, i, <<"/", "*">>) /\ closes # {}
             THEN <<" ">> \o SubBlockComments_Greedy(s, (CHOOSE j \in closes : \A k \in closes : k <= j) + 2)
             ELSE <<s[i]>> \o SubBlockComments_Greedy(s, i + 1)

\* re.sub(r"/\*.*?\*/", " ", text, flags=re.DOTALL) from index i on
RECURSIVE SubBlockComments(_, _)
SubBlockComments(s, i) ==
    IF i > Len(s) THEN <<>>
    ELSE LET closes == {j \in (i + 2)..(Len(s) - 1) : LiteralAt(s, j, <<"*", "/">>)}
         IN  IF LiteralAt(s, i, <<"/", "*">>) /\ closes # {}
             THEN <<" ">> \o SubBlockComments(s, Min(closes) + 2)
             ELSE <<s[i]>> \o SubBlockComments(s, i + 1)

\* Faulty variant: re.MULTILINE is missing, "$" matches only at the end of the
\* text or before a newline that ends it
RECURSIVE SubLineComments_NoMultiline(_, _)
SubLineComments_NoMultiline(s, i) ==
    IF i > Len(s) THEN <<>>
    ELSE LET nls == {j \in (i + 2)..Len(s) : s[j] = "\n"}
         IN  IF LiteralAt(s, i, <<"-", "-">>) /\ (nls = {} \/ nls = {Len(s)})
             THEN <<" ">> \o (IF nls = {} THEN <<>> ELSE <<"\n">>)
             ELSE <<s[i]>> \o SubLineComments_NoMultiline(s, i + 1)

\* re.sub(r"--.*$", " ", text, flags=re.MULTILINE) from index i on:
\* "." stops at "\n", "$" matches before a "\n" and at the end
RECURSIVE SubLineComments(_, _)
SubLineComments(s, i) ==
    IF i > Len(s) THEN <<>>
    ELSE LET nls == {j \in (i + 2)..Len(s) : s[j] = "\n"}
             stop == IF nls = {} THEN Len(s) + 1 ELSE Min(nls)
         IN  IF LiteralAt(s, i, <<"-", "-">>)
             THEN <<" ">> \o SubLineComments(s, stop)
             ELSE <<s[i]>> \o SubLineComments(s, i + 1)

\* re.sub(r"(^B+)|(B+$)", "", text) with B the backtick: "^" is the start of
\* the string, "$" is the end of the string or the place before a final "\n"
SubSurroundingBackticks(s) ==
    LET n     == Len(s)
        lead  == IF \A i \in 1..n : s[i] = Backtick THEN n
                 ELSE Min({i \in 1..n : s[i] # Backtick}) - 1
        e     == IF n >= 1 /\ s[n] = "\n" THEN n - 1 ELSE n
        \* first index of the backtick run that ends at e (e + 1 if none)
        b     == IF e >= 1 /\ s[e] = Backtick
                 THEN Min({i \in 1..e : \A j \in i..e : s[j] = Backtick})
                 ELSE e + 1
        b2    == IF b <= lead THEN lead + 1 ELSE b
    IN  IF b2 > e
        THEN Tail_(s, lead + 1)
        ELSE SubSeq(s, lead + 1, b2 - 1) \o Tail_(s, e + 1)

\* Faulty variant: every whitespace character becomes a space of its own
RECURSIVE SubWhitespace_NoCollapse(_, _)
SubWhitespace_NoCollapse(s, i) ==
    IF i > Len(s) THEN <<>>
    ELSE (IF IsSpace(s[i]) THEN <<" ">> ELSE <<s[i]>>) \o SubWhitespace_NoCollapse(s, i + 1)

\* re.sub(r"\s+", " ", text) from index i on
RECURSIVE SubWhitespace(_, _)
SubWhitespace(s, i) ==
    IF i > Len(s) THEN <<>>
    ELSE IF IsSpace(s[i])
         THEN LET rest == {j \in (i + 1)..Len(s) : ~IsSpace(s[j])}
              IN  <<" ">> \o SubWhitespace(s, IF rest = {} THEN Len(s) + 1 ELSE Min(rest))
         ELSE <<s[i]>> \o SubWhitespace(s, i + 1)

CleanInputText(text) ==
    LET c1 == SubBlockComments(text, 1)
        c2 == SubLineComments(c1, 1)
        c3 == SubSurroundingBackticks(c2)
    IN  Strip(SubWhitespace(c3, 1))

-----------------------------------------------------------------------------
(* _extract_sql_candidate *)

kSELECT == <<"S","E","L","E","C","T">>

kWITH == <<"W","I","T","H">>

\* \bSELECT\b matches at index i
SelectWordAt(s, i) ==
    /\ MatchesAt(s, i, kSELECT)
    /\ Boundary(s, i)
    /\ Boundary(s, i + Len(kSELECT))

\* WITH\s+.*?\bSELECT\b matches at index i
CteAt(s, i) ==
    /\ MatchesAt(s, i, kWITH)
    /\ i + Len(kWITH) <= Len(s)
    /\ IsSpace(s[i + Len(kWITH)])
    /\ \E j \in (i + Len(kWITH) + 1)..Len(s) : SelectWordAt(s, j)

\* the start positions of (?i)(?:(WITH\s+.*?\bSELECT\b)|\bSELECT\b).*
CandidateStarts(s) == {i \in 1..Len(s) : CteAt(s, i) \/ SelectWordAt(s, i)}

NoStatementMessage == "No valid SQL statement found"

\* Faulty variant: the whole cleaned text is returned instead of group(0)
ExtractSqlCandidate_WholeText(cleaned_text) ==
    IF CandidateStarts(cleaned_text) # {}
    THEN <<TRUE, Strip(cleaned_text)>>
    ELSE <<FALSE, <<NoStatementMessage, "", <<>>>>>>

\* Faulty variant: text without a query start is passed on whole instead of
\* being rejected
ExtractSqlCandidate_PassThrough(cleaned_text) ==
    IF CandidateStarts(cleaned_text) # {}
    THEN <<TRUE, Strip(Tail_(cleaned_text, Min(CandidateStarts(cleaned_text))))>>
    ELSE <<TRUE, cleaned_text>>

\* Faulty variant: the Candidate starts at the first bare SELECT even when a
\* WITH ... SELECT start lies to its left
ExtractSqlCandidate_SelectOnly(cleaned_text) ==
    LET selects == {i \in 1..Len(cleaned_text) : SelectWordAt(cleaned_text, i)}
    IN  IF selects # {}
        THEN <<TRUE, Strip(Tail_(cleaned_text, Min(selects)))>>
        ELSE <<FALSE, <<NoStatementMessage, "", <<>>>>>>

\* An exception is <<message, pattern named in the message, SQL text quoted
\* in the message>>.
\* <<TRUE, candidate>> or <<FALSE, exception>>: search() takes the leftmost
\* start, ".*" with DOTALL runs to the end of the text
ExtractSqlCandidate(cleaned_text) ==
    IF CandidateStarts(cleaned_text) # {}
    THEN <<TRUE, Strip(Tail_(cleaned_text, Min(CandidateStarts(cleaned_text))))>>
    ELSE <<FALSE, <<NoStatementMessage, "", <<>>>>>>

-----------------------------------------------------------------------------
(* _process_termination_pattern *)

\* the alternatives of the "termination" pattern, in order; a pair is
\* FIRST\s+SECOND
ClauseKeywords == <<
    << <<"U","N","I","O","N">>, <<"A","L","L">> >>,
    << <<"U","N","I","O","N">>, <<>> >>,
    << <<"E","X","C","E","P","T">>, <<>> >>,
    << <<"I","N","T","E","R","S","E","C","T">>, <<>> >>,
    << <<"L","I","M","I","T">>, <<>> >>,
    << <<"O","F","F","S","E","T">>, <<>> >>,
    << <<"F","E","T","C","H">>, <<>> >>,
    << <<"F","O","R">>, <<>> >>,
    << <<"O","R","D","E","R">>, <<"B","Y">> >>,
    << <<"G","R","O","U","P">>, <<"B","Y">> >>,
    << <<"H","A","V","I","N","G">>, <<>> >>,
    << <<"W","I","N","D","O","W">>, <<>> >> >>

\* the index after a match of FIRST(\s+SECOND)? at i, ignoring case (0 = no match)
KeywordEnd(s, i, kw) ==
    IF ~MatchesAt(s, i, kw[1]) THEN 0
    ELSE IF kw[2] = <<>> THEN i + Len(kw[1])
    ELSE LET a    == i + Len(kw[1])
             rest == {j \in a..Len(s) : ~IsSpace(s[j])}
             j0   == IF rest = {} THEN Len(s) + 1 ELSE Min(rest)
         IN  IF j0 > a /\ MatchesAt(s, j0, kw[2]) THEN j0 + Len(kw[2]) ELSE 0

\* the lookahead (?=\b(?:...)\b) holds at index i
ClauseAt(s, i) ==
    /\ Boundary(s, i)
    /\ \E k \in DOMAIN ClauseKeywords :
          /\ KeywordEnd(s, i, ClauseKeywords[k]) # 0
          /\ Boundary(s, KeywordEnd(s, i, ClauseKeywords[k]))

\* pattern.match() of one entry of TERMINATION_PATTERNS:
\* <<matched, group(1), group(2)>>
TerminationMatch(name, s) ==
    IF name = "semicolon"
    THEN \* ^(.*?)(;|\Z): the shortest prefix before a ";" or the end
         LET semis == {i \in 1..Len(s) : s[i] = ";"}
         IN  IF semis # {}
             THEN <<TRUE, SubSeq(s, 1, Min(semis) - 1), <<";">> >>
             ELSE <<TRUE, s, <<>> >>
    ELSE \* ^(.*?)(?=\b(?:UNION\s+ALL|...|WINDOW)\b)
         LET cuts == {i \in 1..(Len(s) + 1) : ClauseAt(s, i)}
         IN  IF cuts # {}
             THEN <<TRUE, SubSeq(s, 1, Min(cuts) - 1), <<>> >>
             ELSE <<FALSE, <<>>, <<>> >>

\* Faulty variant: the clause-boundary rule is tried first
TERMINATION_PATTERNS_ClauseFirst == <<"termination", "semicolon">>

TERMINATION_PATTERNS == <<"semicolon", "termination">>

NoSelectMessage == "No valid SELECT statement found"

\* the for loop from entry k of TERMINATION_PATTERNS on
RECURSIVE TerminationLoop(_, _)
TerminationLoop(extracted_sql, k) ==
    IF k > Len(TERMINATION_PATTERNS)
    THEN <<FALSE, <<NoSelectMessage, "", <<>>>>>>
    ELSE LET name == TERMINATION_PATTERNS[k]
             m    == TerminationMatch(name, extracted_sql)
             cand == Strip(m[2])
         IN  IF ~m[1] THEN TerminationLoop(extracted_sql, k + 1)
             ELSE IF name = "semicolon"
                  THEN LET terminated == RStrip(cand \o m[3])
                       IN  <<TRUE, IF EndsWith(terminated, ";")
                                   THEN terminated
                                   ELSE terminated \o <<";">> >>
                  ELSE <<TRUE, cand \o <<";">> >>

\* Faulty variant: group(1) is not stripped
ProcessTerminationPattern_NoStrip(extracted_sql) ==
    LET m          == TerminationMatch("semicolon", extracted_sql)
        terminated == RStrip(m[2] \o m[3])
    IN  <<TRUE, IF EndsWith(terminated, ";") THEN terminated ELSE terminated \o <<";">> >>

\* Faulty variant: the semicolon is appended without the endswith test
ProcessTerminationPattern_AlwaysAppend(extracted_sql) ==
    LET m == TerminationMatch("semicolon", extracted_sql)
    IN  <<TRUE, RStrip(Strip(m[2]) \o m[3]) \o <<";">> >>

\* Faulty variant: the quantifier of the semicolon pattern is greedy, the text
\* is cut at its last ";"
ProcessTerminationPattern_LastSemicolon(extracted_sql) ==
    LET semis == {i \in 1..Len(extracted_sql) : extracted_sql[i] = ";"}
        last  == CHOOSE i \in semis : \A j \in semis : j <= i
        head  == IF semis = {} THEN extracted_sql ELSE SubSeq(extracted_sql, 1, last - 1)
    IN  <<TRUE, RStrip(Strip(head)) \o <<";">> >>

ProcessTerminationPattern(extracted_sql) == TerminationLoop(extracted_sql, 1)

-----------------------------------------------------------------------------
(* _validate_security *)

\* the list of regular expressions, by their source text
ILLEGAL_OPERATION_PATTERNS == <<
    "INSERT\\s+INTO",
    "UPDATE\\s+",
    "DELETE\\s+FROM",
    "CREATE\\s+",
    "DROP\\s+",
    "ALTER\\s+",
    "TRUNCATE\\s+",
    "GRANT\\s+",
    "REVOKE\\s+",
    "COMMIT\\s+",
    "ROLLBACK\\s+",
    "SAVEPOINT\\s+",
    "WITH\\s+RETURNING",
    "INTO\\s+" >>

\* re.compile of a pattern of the list: <<FIRST, SECOND>> for FIRST\s+SECOND,
\* with SECOND = <<>> for FIRST\s+
Compiled(pattern) ==
    CASE pattern = "INSERT\\s+INTO" -> <<<<"I","N","S","E","R","T">>, <<"I","N","T","O">>>>
      [] pattern = "UPDATE\\s+" -> <<<<"U","P","D","A","T","E">>, <<>>>>
      [] pattern = "DELETE\\s+FROM" -> <<<<"D","E","L","E","T","E">>, <<"F","R","O","M">>>>
      [] pattern = "CREATE\\s+" -> <<<<"C","R","E","A","T","E">>, <<>>>>
      [] pattern = "DROP\\s+" -> <<<<"D","R","O","P">>, <<>>>>
      [] pattern = "ALTER\\s+" -> <<<<"A","L","T","E","R">>, <<>>>>
      [] pattern = "TRUNCATE\\s+" -> <<<<"T","R","U","N","C","A","T","E">>, <<>>>>
      [] pattern = "GRANT\\s+" -> <<<<"G","R","A","N","T">>, <<>>>>
      [] pattern = "REVOKE\\s+" -> <<<<"R","E","V","O","K","E">>, <<>>>>
      [] pattern = "COMMIT\\s+" -> <<<<"C","O","M","M","I","T">>, <<>>>>
      [] pattern = "ROLLBACK\\s+" -> <<<<"R","O","L","L","B","A","C","K">>, <<>>>>
      [] pattern = "SAVEPOINT\\s+" -> <<<<"S","A","V","E","P","O","I","N","T">>, <<>>>>
      [] pattern = "WITH\\s+RETURNING" -> <<<<"W","I","T","H">>, <<"R","E","T","U","R","N","I","N","G">>>>
      [] pattern = "INTO\\s+" -> <<<<"I","N","T","O">>, <<>>>>

\* the pattern p matches at index i with re.IGNORECASE
PatternAt(p, s, i) ==
    LET kw == Compiled(p)
    IN  /\ MatchesAt(s, i, kw[1])
        /\ i + Len(kw[1]) <= Len(s)
        /\ IsSpace(s[i + Len(kw[1])])
        /\ kw[2] # <<>> => KeywordEnd(s, i, kw) # 0

\* re.search(pattern, text, re.IGNORECASE)
PatternSearch(p, s) == \E i \in 1..Len(s) : PatternAt(p, s, i)

\* re.sub(r"""('[^']*'|"[^"]*")""", "", sql) from index i on
RECURSIVE SubQuoted(_, _)
SubQuoted(s, i) ==
    IF i > Len(s) THEN <<>>
    ELSE LET closes == {j \in (i + 1)..Len(s) : s[j] = s[i]}
         IN  IF s[i] \in {"'", "\""} /\ closes # {}
             THEN SubQuoted(s, Min(closes) + 1)
             ELSE <<s[i]>> \o SubQuoted(s, i + 1)

RemoveQuotedContent(sql) == SubQuoted(sql, 1)

\* any(m.group() == BACKTICK for m in re.finditer(r'"[^"]*"|\'[^\']*\'|BACKTICK', text))
\* from index i on
RECURSIVE BacktickMatchFrom(_, _)
BacktickMatchFrom(s, i) ==
    IF i > Len(s) THEN FALSE
    ELSE LET closes == {j \in (i + 1)..Len(s) : s[j] = s[i]}
         IN  IF s[i] \in {"'", "\""} /\ closes # {}
             THEN BacktickMatchFrom(s, Min(closes) + 1)
             ELSE IF s[i] = Backtick THEN TRUE
             ELSE BacktickMatchFrom(s, i + 1)

\* Faulty variant: every backtick counts, quoted or not
HasUnquotedBacktick_AnyBacktick(text) == \E i \in 1..Len(text) : text[i] = Backtick

HasUnquotedBacktick(text) == BacktickMatchFrom(text, 1)

BlockedMessage == "Blocked SQL operation detected: "

InvalidBackticksMessage == "Invalid backticks in SQL:\n"

UnquotedBackticksMessage == "Unquoted backticks detected:\n"

\* the for loop over the pattern table from entry k on: the first pattern
\* that matches is raised
RECURSIVE BlocklistScan(_, _, _)
BlocklistScan(table, unquoted, k) ==
    IF k > Len(table) THEN <<>>
    ELSE IF PatternSearch(table[k], unquoted)
         THEN <<BlockedMessage, table[k], <<>>>>
         ELSE BlocklistScan(table, unquoted, k + 1)

\* Faulty variant: the scan for backticks outside quotes is left out
ValidateSecurity_NoBacktickScan(sql, table) ==
    LET blocked == BlocklistScan(table, RemoveQuotedContent(sql), 1)
    IN  IF blocked # <<>> THEN <<FALSE, blocked>>
        ELSE IF StartsWith(sql, Backtick) \/ EndsWith(sql, Backtick)
             THEN <<FALSE, <<InvalidBackticksMessage, "", sql>>>>
        ELSE <<TRUE, <<>>>>

\* Faulty variant: the backtick checks run before the blocklist scan
ValidateSecurity_BackticksFirst(sql, table) ==
    LET blocked == BlocklistScan(table, RemoveQuotedContent(sql), 1)
    IN  IF StartsWith(sql, Backtick) \/ EndsWith(sql, Backtick)
        THEN <<FALSE, <<InvalidBackticksMessage, "", sql>>>>
        ELSE IF HasUnquotedBacktick(sql)
             THEN <<FALSE, <<UnquotedBackticksMessage, "", sql>>>>
        ELSE IF blocked # <<>> THEN <<FALSE, blocked>>
        ELSE <<TRUE, <<>>>>

\* <<TRUE, <<>>>> when nothing is raised, <<FALSE, exception>> otherwise
ValidateSecurity(sql, table) ==
    LET unquoted == RemoveQuotedContent(sql)
        blocked  == BlocklistScan(table, unquoted, 1)
    IN  IF blocked # <<>> THEN <<FALSE, blocked>>
        ELSE IF StartsWith(sql, Backtick) \/ EndsWith(sql, Backtick)
             THEN <<FALSE, <<InvalidBackticksMessage, "", sql>>>>
        ELSE IF HasUnquotedBacktick(sql)
             THEN <<FALSE, <<UnquotedBackticksMessage, "", sql>>>>
        ELSE <<TRUE, <<>>>>

-----------------------------------------------------------------------------
(* _create_error_context *)

NA == <<"N", "/", "A">>

\* the four parts the f-string joins under their labels
CreateErrorContext(error, original_input, cleaned_text, extracted_sql) ==
    [failed   |-> error,
     original |-> original_input,
     cleaned  |-> cleaned_text,
     extracted |-> extracted_sql]

-----------------------------------------------------------------------------
(* extract_sql *)

\* the whole call as a function of its argument and of the pattern table:
\* [ok, value, error] with error = <<>> on success
ExtractSql(text, table) ==
    LET sanitized == CleanInputText(text)
        cand      == ExtractSqlCandidate(sanitized)
        term      == ProcessTerminationPattern(cand[2])
        sec       == ValidateSecurity(term[2], table)
    IN  IF ~cand[1]
        THEN [ok |-> FALSE, value |-> <<>>,
              error |-> CreateErrorContext(cand[2], text, sanitized, NA)]
        ELSE IF ~term[1]
        THEN [ok |-> FALSE, value |-> <<>>,
              error |-> CreateErrorContext(term[2], text, sanitized, cand[2])]
        ELSE IF ~sec[1]
        THEN [ok |-> FALSE, value |-> <<>>,
              error |-> CreateErrorContext(sec[2], text, sanitized, cand[2])]
        ELSE [ok |-> TRUE, value |-> term[2], error |-> <<>>]

Calls == {1, 2}

\* Faulty variant: the sanitized text is kept in one buffer shared by all calls
Sanitize_SharedBuffer(t) ==
    /\ pc[t] = "sanitize"
    /\ sanitized_text' = [u \in Calls |-> <<CleanInputText(input_text[t])>>]
    /\ pc' = [pc EXCEPT ![t] = "extract"]
    /\ UNCHANGED <<input_text, sql_candidate, final_sql, raised, returned, failure, patterns>>

\* line 47
Sanitize(t) ==
    /\ pc[t] = "sanitize"
    /\ sanitized_text' = [sanitized_text EXCEPT ![t] = <<CleanInputText(input_text[t])>>]
    /\ pc' = [pc EXCEPT ![t] = "extract"]
    /\ UNCHANGED <<input_text, sql_candidate, final_sql, raised, returned, failure, patterns>>

\* line 48
Extract(t) ==
    /\ pc[t] = "extract"
    /\ LET r == ExtractSqlCandidate(sanitized_text[t][1])
       IN  IF r[1]
           THEN /\ sql_candidate' = [sql_candidate EXCEPT ![t] = <<r[2]>>]
                /\ pc' = [pc EXCEPT ![t] = "terminate"]
                /\ UNCHANGED raised
           ELSE /\ raised' = [raised EXCEPT ![t] = <<r[2]>>]
                /\ pc' = [pc EXCEPT ![t] = "except"]
                /\ UNCHANGED sql_candidate
    /\ UNCHANGED <<input_text, sanitized_text, final_sql, returned, failure, patterns>>

\* line 49
Terminate(t) ==
    /\ pc[t] = "terminate"
    /\ LET r == ProcessTerminationPattern(sql_candidate[t][1])
       IN  IF r[1]
           THEN /\ final_sql' = [final_sql EXCEPT ![t] = <<r[2]>>]
                /\ pc' = [pc EXCEPT ![t] = "validate"]
                /\ UNCHANGED raised
           ELSE /\ raised' = [raised EXCEPT ![t] = <<r[2]>>]
                /\ pc' = [pc EXCEPT ![t] = "except"]
                /\ UNCHANGED final_sql
    /\ UNCHANGED <<input_text, sanitized_text, sql_candidate, returned, failure, patterns>>

\* Faulty variant: the text without its quoted spans, which the scan works
\* on, is returned
Validate_ReturnsUnquoted(t) ==
    /\ pc[t] = "validate"
    /\ LET r == ValidateSecurity(final_sql[t][1], patterns)
       IN  IF r[1]
           THEN /\ returned' = [returned EXCEPT ![t] = <<RemoveQuotedContent(final_sql[t][1])>>]
                /\ pc' = [pc EXCEPT ![t] = "done"]
                /\ UNCHANGED raised
           ELSE /\ raised' = [raised EXCEPT ![t] = <<r[2]>>]
                /\ pc' = [pc EXCEPT ![t] = "except"]
                /\ UNCHANGED returned
    /\ UNCHANGED <<input_text, sanitized_text, sql_candidate, final_sql, failure, patterns>>

\* Faulty variant: the Candidate is validated, the Statement is returned
Validate_WholeCandidate(t) ==
    /\ pc[t] = "validate"
    /\ LET r == ValidateSecurity(sql_candidate[t][1], patterns)
       IN  IF r[1]
           THEN /\ returned' = [returned EXCEPT ![t] = final_sql[t]]
                /\ pc' = [pc EXCEPT ![t] = "done"]
                /\ UNCHANGED raised
           ELSE /\ raised' = [raised EXCEPT ![t] = <<r[2]>>]
                /\ pc' = [pc EXCEPT ![t] = "except"]
                /\ UNCHANGED returned
    /\ UNCHANGED <<input_text, sanitized_text, sql_candidate, final_sql, failure, patterns>>

\* lines 51-52
Validate(t) ==
    /\ pc[t] = "validate"
    /\ LET r == ValidateSecurity(final_sql[t][1], patterns)
       IN  IF r[1]
           THEN /\ returned' = [returned EXCEPT ![t] = final_sql[t]]
                /\ pc' = [pc EXCEPT ![t] = "done"]
                /\ UNCHANGED raised
           ELSE /\ raised' = [raised EXCEPT ![t] = <<r[2]>>]
                /\ pc' = [pc EXCEPT ![t] = "except"]
                /\ UNCHANGED returned
    /\ UNCHANGED <<input_text, sanitized_text, sql_candidate, final_sql, failure, patterns>>

\* Faulty variant: the Statement is reported in place of the Candidate
Except_ReportsStatement(t) ==
    /\ pc[t] = "except"
    /\ failure' = [failure EXCEPT ![t] =
           <<CreateErrorContext(
                 raised[t][1],
                 input_text[t],
                 IF sanitized_text[t] # <<>> THEN sanitized_text[t][1] ELSE NA,
                 IF final_sql[t] # <<>> THEN final_sql[t][1] ELSE NA)>>]
    /\ pc' = [pc EXCEPT ![t] = "done"]
    /\ UNCHANGED <<input_text, sanitized_text, sql_candidate, final_sql, raised, returned, patterns>>

\* lines 54-63: a local that was never bound is reported as N/A
Except(t) ==
    /\ pc[t] = "except"
    /\ failure' = [failure EXCEPT ![t] =
           <<CreateErrorContext(
                 raised[t][1],
                 input_text[t],
                 IF sanitized_text[t] # <<>> THEN sanitized_text[t][1] ELSE NA,
                 IF sql_candidate[t] # <<>> THEN sql_candidate[t][1] ELSE NA)>>]
    /\ pc' = [pc EXCEPT ![t] = "done"]
    /\ UNCHANGED <<input_text, sanitized_text, sql_candidate, final_sql, raised, returned, patterns>>

Next ==
    \E t \in Calls :
        \/ Sanitize(t)
        \/ Extract(t)
        \/ Terminate(t)
        \/ Validate(t)
        \/ Except(t)

-----------------------------------------------------------------------------
(* Inputs *)

\* the concatenation of the strings f[1], ..., f[n]
RECURSIVE Concat(_, _)
Concat(f, n) == IF n = 0 THEN <<>> ELSE Concat(f, n - 1) \o f[n]

\* every text made of at most n pieces of P
Texts(P, n) == UNION {{Concat(f, k) : f \in [1..k -> P]} : k \in 0..n}

MaxPieces == 3

Pieces == {
    <<"S","E","L","E","C","T">>,
    <<"s","e","l","e","c","t">>,
    <<"W","I","T","H">>,
    <<"I","N","S","E","R","T"," ","I","N","T","O">>,
    <<"I","N","T","O">>,
    <<"R","E","V","O","K","E">>,
    <<"x">>,
    <<" ">>,
    <<"\n">>,
    <<";">>,
    <<"'">>,
    <<Backtick>>,
    <<"-","-">>,
    <<"/","*">>,
    <<"*","/">> }

Unbound == [t \in Calls |-> <<>>]

\* one call of extract_sql; the second call slot is not used
Init ==
    /\ \E x \in Texts(Pieces, MaxPieces) : input_text = [t \in Calls |-> IF t = 1 THEN x ELSE <<>>]
    /\ pc = [t \in Calls |-> IF t = 1 THEN "sanitize" ELSE "idle"]
    /\ sanitized_text = Unbound
    /\ sql_candidate = Unbound
    /\ final_sql = Unbound
    /\ raised = Unbound
    /\ returned = Unbound
    /\ failure = Unbound
    /\ patterns = ILLEGAL_OPERATION_PATTERNS

Spec == Init /\ [][Next]_vars

\* Longer texts over fewer pieces: prose before a statement, a CTE prefix,
\* text after the semicolon
MaxLongPieces == 5

LongPieces == {
    <<"S","E","L","E","C","T">>,
    <<"W","I","T","H">>,
    <<"R","E","V","O","K","E">>,
    <<" ">>,
    <<";">>,
    <<Backtick>> }

InitLong ==
    /\ \E x \in Texts(LongPieces, MaxLongPieces) : input_text = [t \in Calls |-> IF t = 1 THEN x ELSE <<>>]
    /\ pc = [t \in Calls |-> IF t = 1 THEN "sanitize" ELSE "idle"]
    /\ sanitized_text = Unbound
    /\ sql_candidate = Unbound
    /\ final_sql = Unbound
    /\ raised = Unbound
    /\ returned = Unbound
    /\ failure = Unbound
    /\ patterns = ILLEGAL_OPERATION_PATTERNS

SpecLong == InitLong /\ [][Next]_vars

\* Two calls of extract_sql running at once, their steps interleaved
MaxCallPieces == 2

CallPieces == {
    <<"S","E","L","E","C","T">>,
    <<" ","I","N","T","O"," ","t">>,
    <<"x">>,
    <<Backtick>> }

InitTwoCalls ==
    /\ input_text \in [Calls -> Texts(CallPieces, MaxCallPieces)]
    /\ pc = [t \in Calls |-> "sanitize"]
    /\ sanitized_text = Unbound
    /\ sql_candidate = Unbound
    /\ final_sql = Unbound
    /\ raised = Unbound
    /\ returned = Unbound
    /\ failure = Unbound
    /\ patterns = ILLEGAL_OPERATION_PATTERNS

SpecTwoCalls == InitTwoCalls /\ [][Next]_vars

\* Narration around one statement: prose, the statement, prose
MaxProsePieces == 2

ProsePieces == { <<"x">>, <<" ">>, <<":">>, <<"\n">> }

Statements == {
    <<"S","E","L","E","C","T"," ","x"," ","F","R","O","M"," ","t",";">>,
    <<"S","E","L","E","C","T"," ","l","a","s","t","_","u","p","d","a","t","e"," ","F","R","O","M"," ","t",";">> }

InitProse ==
    /\ \E p \in Texts(ProsePieces, MaxProsePieces), q \in Statements, x \in Texts(ProsePieces, MaxProsePieces) :
          input_text = [t \in Calls |-> IF t = 1 THEN p \o q \o x ELSE <<>>]
    /\ pc = [t \in Calls |-> IF t = 1 THEN "sanitize" ELSE "idle"]
    /\ sanitized_text = Unbound
    /\ sql_candidate = Unbound
    /\ final_sql = Unbound
    /\ raised = Unbound
    /\ returned = Unbound
    /\ failure = Unbound
    /\ patterns = ILLEGAL_OPERATION_PATTERNS

SpecProse == InitProse /\ [][Next]_vars

\* Statements with quoted literals: keywords and backticks inside and
\* outside of single- and double-quoted spans
MaxQuotedPieces == 5

QuotedPieces == {
    <<"S","E","L","E","C","T">>,
    <<" ","U","P">>,
    <<"D","A","T","E"," ","x">>,
    <<"'">>,
    <<"\"">>,
    <<Backtick>> }

InitQuoted ==
    /\ \E x \in Texts(QuotedPieces, MaxQuotedPieces) : input_text = [t \in Calls |-> IF t = 1 THEN x ELSE <<>>]
    /\ pc = [t \in Calls |-> IF t = 1 THEN "sanitize" ELSE "idle"]
    /\ sanitized_text = Unbound
    /\ sql_candidate = Unbound
    /\ final_sql = Unbound
    /\ raised = Unbound
    /\ returned = Unbound
    /\ failure = Unbound
    /\ patterns = ILLEGAL_OPERATION_PATTERNS

SpecQuoted == InitQuoted /\ [][Next]_vars

\* Comments, code fences and line breaks around a statement
MaxSanitizePieces == 4

SanitizePieces == {
    <<"S","E","L","E","C","T">>,
    <<"x">>,
    <<" ">>,
    <<"\n">>,
    <<Backtick>>,
    <<"-","-">>,
    <<"/","*">>,
    <<"*","/">> }

InitSanitize ==
    /\ \E x \in Texts(SanitizePieces, MaxSanitizePieces) : input_text = [t \in Calls |-> IF t = 1 THEN x ELSE <<>>]
    /\ pc = [t \in Calls |-> IF t = 1 THEN "sanitize" ELSE "idle"]
    /\ sanitized_text = Unbound
    /\ sql_candidate = Unbound
    /\ final_sql = Unbound
    /\ raised = Unbound
    /\ returned = Unbound
    /\ failure = Unbound
    /\ patterns = ILLEGAL_OPERATION_PATTERNS

SpecSanitize == InitSanitize /\ [][Next]_vars

\* The same keywords in upper and lower case
MaxCasePieces == 4

CasePieces == {
    <<"S","E","L","E","C","T">>,
    <<"s","e","l","e","c","t">>,
    <<" ","I","N","T","O"," ">>,
    <<" ","i","n","t","o"," ">>,
    <<"W","i","t","h"," ">>,
    <<"x">>,
    <<Backtick>> }

InitCase ==
    /\ \E x \in Texts(CasePieces, MaxCasePieces) : input_text = [t \in Calls |-> IF t = 1 THEN x ELSE <<>>]
    /\ pc = [t \in Calls |-> IF t = 1 THEN "sanitize" ELSE "idle"]
    /\ sanitized_text = Unbound
    /\ sql_candidate = Unbound
    /\ final_sql = Unbound
    /\ raised = Unbound
    /\ returned = Unbound
    /\ failure = Unbound
    /\ patterns = ILLEGAL_OPERATION_PATTERNS

SpecCase == InitCase /\ [][Next]_vars

\* Statements with trailing clauses (LIMIT, ORDER BY, UNION)
MaxClausePieces == 4

ClausePieces == {
    <<"S","E","L","E","C","T">>,
    <<" ">>,
    <<"x">>,
    <<";">>,
    <<"L","I","M","I","T">>,
    <<"O","R","D","E","R"," ","B","Y">>,
    <<"u","n","i","o","n">> }

InitClause ==
    /\ \E x \in Texts(ClausePieces, MaxClausePieces) : input_text = [t \in Calls |-> IF t = 1 THEN x ELSE <<>>]
    /\ pc = [t \in Calls |-> IF t = 1 THEN "sanitize" ELSE "idle"]
    /\ sanitized_text = Unbound
    /\ sql_candidate = Unbound
    /\ final_sql = Unbound
    /\ raised = Unbound
    /\ returned = Unbound
    /\ failure = Unbound
    /\ patterns = ILLEGAL_OPERATION_PATTERNS

SpecClause == InitClause /\ [][Next]_vars

\* A nested block comment before a statement: text, the comment
\* "/*" a "/*" b "*/" c "*/" with a, b, c free of comment markers, a statement
MaxNestedPieces == 1

NestedPieces == { <<"x">>, <<" ">>, <<"w","i","t","h"," ">> }

NestedBefore == { <<>>, <<"x"," ">> }

NestedStatements == {
    <<" ","S","E","L","E","C","T"," ","x">>,
    <<"\n","s","e","l","e","c","t"," ","x"," ",";","x">>,
    <<"S","E","L","E","C","T"," ","x"," ","I","N","T","O"," ","t">> }

InitNested ==
    /\ \E before \in NestedBefore, a, b, c \in Texts(NestedPieces, MaxNestedPieces), q \in NestedStatements :
          input_text = [t \in Calls |->
              IF t = 1
              THEN before \o <<"/","*">> \o a \o <<"/","*">> \o b \o <<"*","/">> \o c \o <<"*","/">> \o q
              ELSE <<>>]
    /\ pc = [t \in Calls |-> IF t = 1 THEN "sanitize" ELSE "idle"]
    /\ sanitized_text = Unbound
    /\ sql_candidate = Unbound
    /\ final_sql = Unbound
    /\ raised = Unbound
    /\ returned = Unbound
    /\ failure = Unbound
    /\ patterns = ILLEGAL_OPERATION_PATTERNS

SpecNested == InitNested /\ [][Next]_vars

\* Statements that fail more than one check: two blocklist patterns, a
\* blocklist pattern and a bare backtick
MaxOrderPieces == 5

OrderPieces == {
    <<"S","E","L","E","C","T">>,
    <<" ","I","N","S","E","R","T">>,
    <<" ","I","N","T","O"," ">>,
    <<"x">>,
    <<Backtick>> }

InitOrder ==
    /\ \E x \in Texts(OrderPieces, MaxOrderPieces) : input_text = [t \in Calls |-> IF t = 1 THEN x ELSE <<>>]
    /\ pc = [t \in Calls |-> IF t = 1 THEN "sanitize" ELSE "idle"]
    /\ sanitized_text = Unbound
    /\ sql_candidate = Unbound
    /\ final_sql = Unbound
    /\ raised = Unbound
    /\ returned = Unbound
    /\ failure = Unbound
    /\ patterns = ILLEGAL_OPERATION_PATTERNS

SpecOrder == InitOrder /\ [][Next]_vars

\* A statement with one string literal: SELECT, the literal in single or
\* double quotes, the rest of the statement
MaxLiteralPieces == 3

LiteralPieces == {
    <<"x">>,
    <<" ">>,
    <<"\n">>,
    <<"-","-">>,
    <<"/","*">>,
    <<"*","/">>,
    <<";">>,
    <<Backtick>> }

LiteralQuotes == { "'", "\"" }

LiteralRests == { <<>>, <<" ","F","R","O","M"," ","t">> }

InitLiteral ==
    /\ \E lit \in Texts(LiteralPieces, MaxLiteralPieces), q \in LiteralQuotes, rest \in LiteralRests :
          input_text = [t \in Calls |->
              IF t = 1
              THEN <<"S","E","L","E","C","T"," ">> \o <<q>> \o lit \o <<q>> \o rest
              ELSE <<>>]
    /\ pc = [t \in Calls |-> IF t = 1 THEN "sanitize" ELSE "idle"]
    /\ sanitized_text = Unbound
    /\ sql_candidate = Unbound
    /\ final_sql = Unbound
    /\ raised = Unbound
    /\ returned = Unbound
    /\ failure = Unbound
    /\ patterns = ILLEGAL_OPERATION_PATTERNS

SpecLiteral == InitLiteral /\ [][Next]_vars

\* _process_termination_pattern called on its own: sql_candidate holds the
\* argument extracted_sql, final_sql the returned Statement, raised the
\* exception
Resolve(t) ==
    /\ pc[t] = "resolve"
    /\ LET r == ProcessTerminationPattern(sql_candidate[t][1])
       IN  IF r[1]
           THEN /\ final_sql' = [final_sql EXCEPT ![t] = <<r[2]>>]
                /\ UNCHANGED raised
           ELSE /\ raised' = [raised EXCEPT ![t] = <<r[2]>>]
                /\ UNCHANGED final_sql
    /\ pc' = [pc EXCEPT ![t] = "done"]
    /\ UNCHANGED <<input_text, sanitized_text, sql_candidate, returned, failure, patterns>>

NextResolver == \E t \in Calls : Resolve(t)

\* The arguments of the Termination Resolver: any short text, the empty
\* string included
MaxResolverPieces == 3

ResolverPieces == {
    <<"S","E","L","E","C","T">>,
    <<"L","I","M","I","T">>,
    <<"x">>,
    <<" ">>,
    <<";">> }

InitResolver ==
    /\ \E x \in Texts(ResolverPieces, MaxResolverPieces) :
          sql_candidate = [t \in Calls |-> IF t = 1 THEN <<x>> ELSE <<>>]
    /\ pc = [t \in Calls |-> IF t = 1 THEN "resolve" ELSE "idle"]
    /\ input_text = [t \in Calls |-> <<>>]
    /\ sanitized_text = Unbound
    /\ final_sql = Unbound
    /\ raised = Unbound
    /\ returned = Unbound
    /\ failure = Unbound
    /\ patterns = ILLEGAL_OPERATION_PATTERNS

SpecResolver == InitResolver /\ [][NextResolver]_vars

-----------------------------------------------------------------------------
(* Vocabulary of the properties *)

Finished(t) == pc[t] = "done"

Succeeded(t) == pc[t] = "done" /\ returned[t] # <<>>

Failed(t) == pc[t] = "done" /\ failure[t] # <<>>

\* the error kind that a message of the module stands for
KindOf(exception) ==
    IF exception[1] = NoStatementMessage THEN "NoStatementFound"
    ELSE IF exception[1] = NoSelectMessage THEN "NoSelectStatement"
    ELSE IF exception[1] = BlockedMessage THEN "BlockedOperation"
    ELSE "InvalidBacktick"

FailedWith(t, kind) == Failed(t) /\ returned[t] = <<>> /\ KindOf(failure[t][1].failed) = kind

\* the outcome a caller observes: the returned string, or the error kind with
\* the pattern and the SQL text of the message
Outcome(r) ==
    IF r.ok THEN <<"returned", r.value, "", <<>>>>
    ELSE <<KindOf(r.error.failed), <<>>, r.error.failed[2], r.error.failed[3]>>

OutcomeOf(t) ==
    IF returned[t] # <<>> THEN <<"returned", returned[t][1], "", <<>>>>
    ELSE <<KindOf(failure[t][1].failed), <<>>, failure[t][1].failed[2], failure[t][1].failed[3]>>

\* the upper-case word w occurs in s in any letter case
ContainsWord(s, w) == \E i \in 1..Len(s) : MatchesAt(s, i, w)

\* the blocklisted keyword of table entry p (FIRST, or FIRST whitespace SECOND)
\* occurs in s as a whole word, in any letter case
KeywordOccurs(p, s) ==
    \E i \in 1..Len(s) :
        LET e == KeywordEnd(s, i, Compiled(p))
        IN  e # 0 /\ Boundary(s, i) /\ Boundary(s, e)

ContainsBlocklisted(s) ==
    \E k \in DOMAIN ILLEGAL_OPERATION_PATTERNS : KeywordOccurs(ILLEGAL_OPERATION_PATTERNS[k], s)

\* the text with every '...' and "..." span removed, scanning left to right
RECURSIVE OutsideQuotes(_)
OutsideQuotes(s) ==
    IF s = <<>> THEN <<>>
    ELSE IF Head(s) \in {"'", "\""} /\ \E j \in 2..Len(s) : s[j] = Head(s)
         THEN OutsideQuotes(Tail_(s, 1 + Min({j \in 2..Len(s) : s[j] = Head(s)})))
         ELSE <<Head(s)>> \o OutsideQuotes(Tail(s))

-----------------------------------------------------------------------------
(* Properties *)

\* C1: whenever the Candidate, with its '...' and "..." spans removed, contains
\* a blocklisted keyword, the call fails with BlockedOperation and returns no
\* string.
C1_BlocklistedCandidateRejected ==
    \A t \in Calls :
        (/\ Finished(t)
         /\ sql_candidate[t] # <<>>
         /\ ContainsBlocklisted(OutsideQuotes(sql_candidate[t][1])))
        => FailedWith(t, "BlockedOperation")

\* C2: an input that is a blocklisted statement without any SELECT fails with
\* BlockedOperation, and the error carries the matched blocklist pattern.
C2_NoSelectBlockedOperation ==
    \A t \in Calls :
        (/\ Finished(t)
         /\ ContainsBlocklisted(input_text[t])
         /\ ~ContainsWord(input_text[t], kSELECT))
        => /\ FailedWith(t, "BlockedOperation")
           /\ \E k \in DOMAIN ILLEGAL_OPERATION_PATTERNS :
                 /\ KeywordOccurs(ILLEGAL_OPERATION_PATTERNS[k], input_text[t])
                 /\ failure[t][1].failed[2] = ILLEGAL_OPERATION_PATTERNS[k]

\* C2 as amended: an input that is a blocklisted statement without any SELECT
\* fails with NoStatementFound before the blocklist is consulted: the error
\* names no pattern, carries the raw input and the cleaned text, and N/A for
\* the Candidate.
C2_NoSelectNoStatementFound ==
    \A t \in Calls :
        (/\ Finished(t)
         /\ ContainsBlocklisted(input_text[t])
         /\ ~ContainsWord(input_text[t], kSELECT))
        => /\ FailedWith(t, "NoStatementFound")
           /\ failure[t][1].failed[2] = ""
           /\ failure[t][1].original = input_text[t]
           /\ failure[t][1].extracted = NA

C2_Witness ==
    /\ Finished(1)
    /\ input_text[1] = <<"I","N","S","E","R","T"," ","I","N","T","O"," ","x">>
    /\ failure[1] # <<>>

\* the checks of the Security Validator, stated one by one
PassesBlocklist(sql) ==
    \A k \in DOMAIN ILLEGAL_OPERATION_PATTERNS :
        ~PatternSearch(ILLEGAL_OPERATION_PATTERNS[k], RemoveQuotedContent(sql))

PassesBacktickChecks(sql) ==
    /\ ~StartsWith(sql, Backtick)
    /\ ~EndsWith(sql, Backtick)
    /\ ~HasUnquotedBacktick(sql)

\* C3: a finished call has either returned a string that passes the blocklist
\* scan and both backtick checks, or raised an error and returned nothing.
C3_ValidatedOrNothing ==
    \A t \in Calls :
        Finished(t) =>
            \/ /\ returned[t] # <<>>
               /\ failure[t] = <<>>
               /\ PassesBlocklist(returned[t][1])
               /\ PassesBacktickChecks(returned[t][1])
            \/ /\ returned[t] = <<>>
               /\ failure[t] # <<>>

\* a call that returned a statement next to one quote character
C3_Witness ==
    /\ Succeeded(1)
    /\ \E i \in 1..Len(returned[1][1]) : returned[1][1][i] = "'"

\* C4: every Statement of the Termination Resolver and every returned string
\* ends with exactly one ";": the last character is ";" and the one before it
\* is not.
EndsWithOneSemicolon(s) ==
    /\ Len(s) >= 1
    /\ s[Len(s)] = ";"
    /\ Len(s) >= 2 => s[Len(s) - 1] # ";"

C4_SingleTerminator ==
    \A t \in Calls :
        /\ final_sql[t] # <<>> => EndsWithOneSemicolon(final_sql[t][1])
        /\ returned[t] # <<>> => EndsWithOneSemicolon(returned[t][1])

\* an input that ends with ";;" was terminated and returned
C4_Witness ==
    /\ Succeeded(1)
    /\ Len(input_text[1]) >= 2
    /\ input_text[1][Len(input_text[1])] = ";"
    /\ input_text[1][Len(input_text[1]) - 1] = ";"

\* the characters of a plain statement body: identifiers, single spaces and
\* harmless punctuation (no quote, backtick, comment marker, tab or newline)
PlainChars == LowerSet \cup UpperSet \cup Digits \cup {"_", " ", ",", ".", "=", "(", ")"}

\* x[i..j] is a well-formed read-only statement 'SELECT ... ;': a whole-word
\* SELECT, a plain single-spaced body without a blocklisted keyword, and the
\* terminating ";" directly after the body
WellFormedAt(x, i, j) ==
    /\ 1 <= i /\ i < j /\ j <= Len(x)
    /\ SelectWordAt(x, i)
    /\ x[j] = ";"
    /\ \A k \in i..(j - 1) : x[k] \in PlainChars
    /\ \A k \in i..(j - 1) : x[k] = " " => x[k + 1] \notin {" ", ";"}
    /\ ~ContainsBlocklisted(SubSeq(x, i, j))

HasWellFormed(x) == \E i, j \in 1..Len(x) : WellFormedAt(x, i, j)

\* the first well-formed statement of x
FirstWellFormed(x) ==
    LET i == Min({a \in 1..Len(x) : \E b \in 1..Len(x) : WellFormedAt(x, a, b)})
        j == Min({b \in 1..Len(x) : WellFormedAt(x, i, b)})
    IN  SubSeq(x, i, j)

\* C5: an input that contains a well-formed statement 'SELECT ... ;', with
\* prose before and after it, yields exactly that statement.
C5_WellFormedReturned ==
    \A t \in Calls :
        (Finished(t) /\ HasWellFormed(input_text[t]))
        => returned[t] = <<FirstWellFormed(input_text[t])>>

\* the text before the first ";" of s (all of s when it has none)
RECURSIVE BeforeSemicolon(_)
BeforeSemicolon(s) ==
    IF s = <<>> \/ Head(s) = ";" THEN <<>>
    ELSE <<Head(s)>> \o BeforeSemicolon(Tail(s))

\* C6: the Statement is the Candidate's text before its first ";", trimmed,
\* followed by one ";"; for a Candidate without ";" it is the Candidate with
\* one ";" appended.
C6_SemicolonRule ==
    \A t \in Calls :
        final_sql[t] # <<>> =>
            LET cand == sql_candidate[t][1]
            IN  /\ final_sql[t][1] = Strip(BeforeSemicolon(cand)) \o <<";">>
                /\ (\A i \in 1..Len(cand) : cand[i] # ";")
                   => final_sql[t][1] = cand \o <<";">>

\* a Candidate with whitespace before its ";" and text after it was resolved
C6_Witness ==
    /\ final_sql[1] # <<>>
    /\ \E i \in 2..(Len(sql_candidate[1][1]) - 1) :
          /\ sql_candidate[1][1][i] = ";"
          /\ sql_candidate[1][1][i - 1] = " "

\* C7: an input with neither SELECT nor WITH anywhere, in any letter case,
\* the empty input included, fails with NoStatementFound and returns nothing.
C7_NoKeywordNoStatement ==
    \A t \in Calls :
        (/\ Finished(t)
         /\ ~ContainsWord(input_text[t], kSELECT)
         /\ ~ContainsWord(input_text[t], kWITH))
        => /\ FailedWith(t, "NoStatementFound")
           /\ failure[t][1].failed[1] = "No valid SQL statement found"

\* a non-empty input without SELECT and WITH has failed
C7_Witness ==
    /\ Failed(1)
    /\ input_text[1] # <<>>
    /\ ~ContainsWord(input_text[1], kSELECT)
    /\ ~ContainsWord(input_text[1], kWITH)

\* C8: running the gateway again on a returned string succeeds and returns
\* the same string.
C8_Idempotent ==
    \A t \in Calls :
        Succeeded(t) =>
            LET again == ExtractSql(returned[t][1], ILLEGAL_OPERATION_PATTERNS)
            IN  again.ok /\ again.value = returned[t][1]

\* "WITH" followed by whitespace occurs in s, in any letter case
ContainsWithSpace(s) ==
    \E i \in 1..Len(s) : MatchesAt(s, i, kWITH) /\ i + Len(kWITH) <= Len(s) /\ IsSpace(s[i + Len(kWITH)])

\* the cleaned text c is P followed by Q with Q = c[i..]: Q begins with a
\* whole-word SELECT, P ends with whitespace and holds neither a whole-word
\* SELECT nor WITH followed by whitespace
PrefixSplit(c, i) ==
    /\ 2 <= i /\ i <= Len(c)
    /\ SelectWordAt(c, i)
    /\ IsSpace(c[i - 1])
    /\ \A k \in 1..(i - 1) : ~SelectWordAt(SubSeq(c, 1, i - 1), k)
    /\ ~ContainsWithSpace(SubSeq(c, 1, i - 1))

\* C10: when the cleaned text is P followed by Q as above, the call has the
\* outcome of extract_sql(Q), whatever P contains.
C10_PrefixDiscarded ==
    \A t \in Calls :
        Finished(t) =>
            \A i \in 1..Len(sanitized_text[t][1]) :
                PrefixSplit(sanitized_text[t][1], i)
                => OutcomeOf(t) = Outcome(ExtractSql(Tail_(sanitized_text[t][1], i),
                                                     ILLEGAL_OPERATION_PATTERNS))

\* C10 as amended: when the cleaned text is P followed by Q as above, the
\* Candidate is exactly Q, and the call has the outcome of extract_sql(Q)
\* unless Q ends with a backtick (a trailing backtick that the sanitizer kept
\* because whitespace followed it in the input would be stripped from Q alone).
C10_PrefixDiscardedUnlessBacktickEnd ==
    \A t \in Calls :
        Finished(t) =>
            \A i \in 1..Len(sanitized_text[t][1]) :
                PrefixSplit(sanitized_text[t][1], i)
                => /\ sql_candidate[t] = <<Tail_(sanitized_text[t][1], i)>>
                   /\ ~EndsWith(sanitized_text[t][1], Backtick)
                      => OutcomeOf(t) = Outcome(ExtractSql(Tail_(sanitized_text[t][1], i),
                                                           ILLEGAL_OPERATION_PATTERNS))

\* a call whose discarded prefix holds the blocklisted REVOKE has returned
C10_Witness ==
    /\ Succeeded(1)
    /\ \E i \in 1..Len(sanitized_text[1][1]) :
          /\ PrefixSplit(sanitized_text[1][1], i)
          /\ ContainsBlocklisted(SubSeq(sanitized_text[1][1], 1, i - 1))
          /\ returned[1][1] = Tail_(sanitized_text[1][1], i) \o <<";">>

\* C9: the pattern table is never modified, and every finished call has the
\* outcome that extract_sql has for its input when run alone, however the
\* steps of the calls interleave; calls with equal inputs have equal outcomes.
C9_CallsIndependent ==
    /\ patterns = ILLEGAL_OPERATION_PATTERNS
    /\ \A t \in Calls :
          Finished(t) =>
              OutcomeOf(t) = Outcome(ExtractSql(input_text[t], ILLEGAL_OPERATION_PATTERNS))
    /\ \A t, u \in Calls :
          (Finished(t) /\ Finished(u) /\ input_text[t] = input_text[u])
          => OutcomeOf(t) = OutcomeOf(u)

\* two calls with different inputs have both finished, one returned a string
\* and the other was rejected by the blocklist
C9_Witness ==
    /\ Succeeded(1)
    /\ FailedWith(2, "BlockedOperation")
    /\ input_text[1] # input_text[2]

\* a backtick occurs in s outside every '...' and "..." span
BareBacktick(s) == \E i \in 1..Len(OutsideQuotes(s)) : OutsideQuotes(s)[i] = Backtick

\* C11: for a Statement that passes the blocklist scan, the call fails with
\* InvalidBacktick exactly when a backtick occurs outside every quoted span;
\* a Statement whose backticks all lie inside quoted spans is returned as it is.
C11_BacktickOutsideSpans ==
    \A t \in Calls :
        (/\ Finished(t)
         /\ final_sql[t] # <<>>
         /\ PassesBlocklist(final_sql[t][1]))
        => /\ FailedWith(t, "InvalidBacktick") <=> BareBacktick(final_sql[t][1])
           /\ ~BareBacktick(final_sql[t][1]) => returned[t] = final_sql[t]

\* a Statement with a backtick inside a quoted span was returned
C11_Witness ==
    /\ Succeeded(1)
    /\ \E i \in 1..Len(returned[1][1]) : returned[1][1][i] = Backtick

\* the indices of s that lie inside a '...' or "..." span (quotes included),
\* scanning left to right from index i
RECURSIVE SpanPositions(_, _)
SpanPositions(s, i) ==
    IF i > Len(s) THEN {}
    ELSE LET closes == {j \in (i + 1)..Len(s) : s[j] = s[i]}
         IN  IF s[i] \in {"'", "\""} /\ closes # {}
             THEN (i..Min(closes)) \cup SpanPositions(s, Min(closes) + 1)
             ELSE SpanPositions(s, i + 1)

\* every occurrence in s of the text of a blocklisted keyword, as a whole
\* word or not, lies inside a quoted span
KeywordsOnlyInSpans(s) ==
    \A k \in DOMAIN ILLEGAL_OPERATION_PATTERNS, i \in 1..Len(s) :
        LET e == KeywordEnd(s, i, Compiled(ILLEGAL_OPERATION_PATTERNS[k]))
        IN  e # 0 => (i..(e - 1)) \subseteq SpanPositions(s, 1)

\* C12: a Statement in which every occurrence of a blocklisted keyword lies
\* inside a quoted span is not rejected with BlockedOperation.
C12_LiteralDataNotInspected ==
    \A t \in Calls :
        (/\ Finished(t)
         /\ final_sql[t] # <<>>
         /\ KeywordsOnlyInSpans(final_sql[t][1]))
        => ~FailedWith(t, "BlockedOperation")


\* C13: a call is rejected with BlockedOperation only when a blocklisted
\* keyword occurs in the Statement as a whole word outside quoted literals; a
\* keyword that is only part of a longer identifier does not count.
C13_WholeWordOnly ==
    \A t \in Calls :
        FailedWith(t, "BlockedOperation")
        => ContainsBlocklisted(OutsideQuotes(final_sql[t][1]))


\* C14: every failure carries the originating error, the raw input, the
\* CleanedText and the Candidate under their labels, with N/A for a value whose
\* stage did not complete: NoStatementFound carries the CleanedText and N/A
\* for the Candidate, BlockedOperation and InvalidBacktick carry all three.
C14_ErrorContext ==
    \A t \in Calls :
        Failed(t) =>
            LET f       == failure[t][1]
                cleaned == CleanInputText(input_text[t])
            IN  /\ f.failed = raised[t][1]
                /\ f.original = input_text[t]
                /\ f.cleaned = cleaned
                /\ KindOf(f.failed) = "NoStatementFound"
                   => /\ sql_candidate[t] = <<>>
                      /\ f.extracted = NA
                /\ KindOf(f.failed) \in {"BlockedOperation", "InvalidBacktick"}
                   => /\ sql_candidate[t] # <<>>
                      /\ f.extracted = sql_candidate[t][1]
                      /\ f.extracted = ExtractSqlCandidate(cleaned)[2]

\* a call was rejected for a backtick after text before the Candidate was
\* discarded: raw input, CleanedText and Candidate are three different texts
C14_Witness ==
    /\ FailedWith(1, "InvalidBacktick")
    /\ failure[1][1].original # failure[1][1].cleaned
    /\ failure[1][1].cleaned # failure[1][1].extracted


\* the text with every ASCII letter in upper case
UpperText(s) == [i \in 1..Len(s) |-> Upper(s[i])]

\* C15: changing the case of ASCII letters of the input does not change the
\* kind of outcome (success, NoStatementFound, BlockedOperation with the same
\* pattern, InvalidBacktick), and on success the returned strings are equal
\* up to letter case.  Every input is compared with its upper-case form, so
\* any two inputs that differ only in letter case are compared through it.
C15_CaseInsensitive ==
    \A t \in Calls :
        Finished(t) =>
            LET upper == ExtractSql(UpperText(input_text[t]), ILLEGAL_OPERATION_PATTERNS)
            IN  /\ OutcomeOf(t)[1] = Outcome(upper)[1]
                /\ OutcomeOf(t)[3] = Outcome(upper)[3]
                /\ returned[t] # <<>> => UpperText(returned[t][1]) = UpperText(upper.value)

\* an input with a lower-case keyword was rejected by the blocklist
C15_Witness ==
    /\ FailedWith(1, "BlockedOperation")
    /\ input_text[1] # UpperText(input_text[1])


\* s without the run of backticks at its very start and the run at its very end
Unwrap(s) ==
    LET inner == {i \in 1..Len(s) : s[i] # Backtick}
    IN  IF inner = {} THEN <<>>
        ELSE SubSeq(s, Min(inner), CHOOSE j \in inner : \A k \in inner : k <= j)

\* the input with its comments replaced by spaces: the string that the
\* backtick step of the sanitizer works on
Uncommented(text) == SubLineComments(SubBlockComments(text, 1), 1)

\* C16: the sanitizer strips exactly the backtick run at the very start of the
\* string and the run at the very end, before whitespace is collapsed and
\* trimmed, and removes no other backtick; so an input wrapped in backtick
\* runs has the outcome of the text inside the runs.
C16_SurroundingBackticks ==
    \A t \in Calls :
        Finished(t) =>
            /\ sanitized_text[t][1] = Strip(SubWhitespace(Unwrap(Uncommented(input_text[t])), 1))
            /\ OutcomeOf(t) = Outcome(ExtractSql(Unwrap(input_text[t]), ILLEGAL_OPERATION_PATTERNS))


\* n spaces
Spaces(n) == [k \in 1..n |-> " "]

\* s with every character of every block comment overwritten by a space
RECURSIVE BlankBlockComments(_)
BlankBlockComments(s) ==
    LET opens == {i \in 1..Len(s) :
                     /\ LiteralAt(s, i, <<"/", "*">>)
                     /\ \E j \in (i + 2)..Len(s) : LiteralAt(s, j, <<"*", "/">>)}
    IN  IF opens = {} THEN s
        ELSE LET i == Min(opens)
                 j == Min({k \in (i + 2)..Len(s) : LiteralAt(s, k, <<"*", "/">>)})
             IN  SubSeq(s, 1, i - 1) \o Spaces(j + 2 - i) \o BlankBlockComments(Tail_(s, j + 2))

\* s with every character of every line comment, up to the end of its line,
\* overwritten by a space
RECURSIVE BlankLineComments(_)
BlankLineComments(s) ==
    LET opens == {i \in 1..Len(s) : LiteralAt(s, i, <<"-", "-">>)}
    IN  IF opens = {} THEN s
        ELSE LET i    == Min(opens)
                 ends == {k \in i..Len(s) : s[k] = "\n"}
                 j    == IF ends = {} THEN Len(s) + 1 ELSE Min(ends)
             IN  SubSeq(s, 1, i - 1) \o Spaces(j - i) \o BlankLineComments(Tail_(s, j))

\* C17: block comments first and then line comments are taken out, each
\* leaving whitespace in its place: the CleanedText is what the backtick and
\* whitespace steps make of the input with its comments blanked out (so the
\* text on the two sides of a comment is never joined), and it contains no
\* "--" and no "/*" that is followed later by "*/".
C17_CommentsRemoved ==
    \A t \in Calls :
        sanitized_text[t] # <<>> =>
            LET c == sanitized_text[t][1]
            IN  /\ c = Strip(SubWhitespace(SubSurroundingBackticks(
                           BlankLineComments(BlankBlockComments(input_text[t]))), 1))
                /\ \A i \in 1..Len(c) : ~LiteralAt(c, i, <<"-", "-">>)
                /\ \A i \in 1..Len(c) :
                       LiteralAt(c, i, <<"/", "*">>)
                       => \A j \in (i + 2)..Len(c) : ~LiteralAt(c, j, <<"*", "/">>)

\* a block comment with a word character directly on both sides was removed
C17_Witness ==
    /\ sanitized_text[1] # <<>>
    /\ \E i, j \in 2..Len(input_text[1]) :
          /\ LiteralAt(input_text[1], i, <<"/", "*">>)
          /\ LiteralAt(input_text[1], j, <<"*", "/">>)
          /\ j >= i + 2
          /\ IsWord(input_text[1][i - 1])
          /\ j + 2 <= Len(input_text[1])
          /\ IsWord(input_text[1][j + 2])


\* SELECT, in any letter case, stands at index i of c as a whole word
WholeSelect(c, i) ==
    /\ i + 5 <= Len(c)
    /\ UpperText(SubSeq(c, i, i + 5)) = kSELECT
    /\ i > 1 => ~IsWord(c[i - 1])
    /\ i + 6 <= Len(c) => ~IsWord(c[i + 6])

\* a query starts at index i of c: a whole-word SELECT, or WITH followed by
\* whitespace and, later, a whole-word SELECT
QueryStart(c, i) ==
    \/ WholeSelect(c, i)
    \/ /\ i + 4 <= Len(c)
       /\ UpperText(SubSeq(c, i, i + 3)) = kWITH
       /\ IsSpace(c[i + 4])
       /\ \E j \in (i + 5)..Len(c) : WholeSelect(c, j)

\* C18: the Candidate is exactly the suffix of the CleanedText that starts at
\* the leftmost query start; without a query start there is no Candidate.
C18_LeftmostQueryStart ==
    \A t \in Calls :
        pc[t] \notin {"idle", "sanitize", "extract"} =>
            LET c      == sanitized_text[t][1]
                starts == {i \in 1..Len(c) : QueryStart(c, i)}
            IN  IF starts = {}
                THEN sql_candidate[t] = <<>>
                ELSE sql_candidate[t] = <<Tail_(c, Min(starts))>>

\* a Candidate that starts at a WITH to the left of the first bare SELECT,
\* after discarded text
C18_Witness ==
    /\ sql_candidate[1] # <<>>
    /\ MatchesAt(sql_candidate[1][1], 1, kWITH)
    /\ Len(sql_candidate[1][1]) < Len(sanitized_text[1][1])


\* the outcome of the stages that follow the Candidate Extractor, for the
\* Candidate cand
OutcomeOfCandidate(cand) ==
    LET term == ProcessTerminationPattern(cand)
        sec  == ValidateSecurity(term[2], ILLEGAL_OPERATION_PATTERNS)
    IN  IF ~term[1] THEN <<KindOf(term[2]), <<>>, term[2][2], term[2][3]>>
        ELSE IF ~sec[1] THEN <<KindOf(sec[2]), <<>>, sec[2][2], sec[2][3]>>
        ELSE <<"returned", term[2], "", <<>>>>

\* C19: a call whose Candidate is S;X, with S free of ";", has the outcome of
\* the Candidate S; whatever X is: the text after the first ";" is dropped and
\* never causes a rejection.
C19_TrailingTextIgnored ==
    \A t \in Calls :
        (/\ Finished(t)
         /\ sql_candidate[t] # <<>>
         /\ \E i \in 1..Len(sql_candidate[t][1]) : sql_candidate[t][1][i] = ";")
        => OutcomeOf(t) = OutcomeOfCandidate(BeforeSemicolon(sql_candidate[t][1]) \o <<";">>)

\* a call has returned although the text after the first ";" of its Candidate
\* holds a bare backtick or matches the blocklist
C19_Witness ==
    /\ Succeeded(1)
    /\ \E i \in 1..(Len(sql_candidate[1][1]) - 1) :
          /\ sql_candidate[1][1][i] = ";"
          /\ \/ BareBacktick(Tail_(sql_candidate[1][1], i + 1))
             \/ ~PassesBlocklist(Tail_(sql_candidate[1][1], i + 1))


\* C20: the semicolon rule resolves every Candidate: the failure "No valid
\* SELECT statement found" is never raised, and a Candidate without ";" that
\* contains a clause keyword (UNION, LIMIT, ORDER BY, ...) is not cut at that
\* keyword but kept whole, with one ";" appended.
C20_ClauseRuleUnreachable ==
    \A t \in Calls :
        /\ raised[t] # <<>> => raised[t][1][1] # NoSelectMessage
        /\ failure[t] # <<>> => KindOf(failure[t][1].failed) # "NoSelectStatement"
        /\ sql_candidate[t] # <<>> /\ pc[t] # "terminate" => final_sql[t] # <<>>
        /\ (/\ final_sql[t] # <<>>
            /\ \A i \in 1..Len(sql_candidate[t][1]) : sql_candidate[t][1][i] # ";"
            /\ \E i \in 1..Len(sql_candidate[t][1]) : ClauseAt(sql_candidate[t][1], i))
           => final_sql[t][1] = sql_candidate[t][1] \o <<";">>

\* a Candidate without ";" that holds a clause keyword after its first
\* character was resolved and returned
C20_Witness ==
    /\ Succeeded(1)
    /\ \A i \in 1..Len(sql_candidate[1][1]) : sql_candidate[1][1][i] # ";"
    /\ \E i \in 2..Len(sql_candidate[1][1]) : ClauseAt(sql_candidate[1][1], i)


\* C21: the Termination Resolver applied to the empty string raises
\* "No valid SELECT statement found" and produces no Statement.
C21_EmptyCandidateRejected ==
    \A t \in Calls :
        (pc[t] = "done" /\ sql_candidate[t] = <<<<>>>>)
        => /\ final_sql[t] = <<>>
           /\ raised[t] # <<>>
           /\ raised[t][1][1] = NoSelectMessage


\* the first index >= from at which the literal w stands in x (0 = none)
FirstAt(x, w, from) ==
    LET at == {k \in from..Len(x) : LiteralAt(x, k, w)}
    IN  IF at = {} THEN 0 ELSE Min(at)

\* the parts of an input that holds a nested block comment: the opener, the
\* nearest closer, the closer after it
NestedOpen(x) == FirstAt(x, <<"/", "*">>, 1)

NestedClose(x) == FirstAt(x, <<"*", "/">>, NestedOpen(x) + 2)

NestedEnd(x) == FirstAt(x, <<"*", "/">>, NestedClose(x) + 2)

\* the input with the span from the opener to the nearest closer replaced by
\* one space: the rest of the nested comment stays
FirstPairRemoved(x) ==
    SubSeq(x, 1, NestedOpen(x) - 1) \o <<" ">> \o Tail_(x, NestedClose(x) + 2)

\* the text that follows the nested comment
AfterNested(x) == Tail_(x, NestedEnd(x) + 2)

\* the nested comment of x lies before the first whole-word SELECT of x
NestedBeforeSelect(x) ==
    /\ \E k \in (NestedEnd(x) + 2)..Len(x) : SelectWordAt(x, k)
    /\ \A k \in 1..(NestedEnd(x) + 1) : ~SelectWordAt(x, k)

WithBeforeSelect(c) ==
    LET selects == {k \in 1..Len(c) : SelectWordAt(c, k)}
    IN  selects # {} /\ ContainsWithSpace(SubSeq(c, 1, Min(selects) - 1))

NormalForm(s) ==
    /\ \A i \in 1..Len(s) : IsSpace(s[i]) => s[i] = " "
    /\ \A i \in 1..(Len(s) - 1) : ~(s[i] = " " /\ s[i + 1] = " ")
    /\ Len(s) >= 1 => (s[1] # " " /\ s[Len(s)] # " ")

\* C23: the CleanedText, the Candidate and every returned string are in
\* whitespace normal form, and a returned string has no space directly before
\* its final ";".
C23_WhitespaceNormalForm ==
    \A t \in Calls :
        /\ sanitized_text[t] # <<>> => NormalForm(sanitized_text[t][1])
        /\ sql_candidate[t] # <<>> => NormalForm(sql_candidate[t][1])
        /\ returned[t] # <<>>
           => /\ NormalForm(returned[t][1])
              /\ Len(returned[t][1]) >= 2 => returned[t][1][Len(returned[t][1]) - 1] # " "

\* a call has returned for an input with a run of whitespace that holds a
\* newline inside the statement
C23_Witness ==
    /\ Succeeded(1)
    /\ \E i \in 1..(Len(input_text[1]) - 1) :
          /\ IsSpace(input_text[1][i])
          /\ input_text[1][i + 1] = "\n"
    /\ \E i \in 1..Len(returned[1][1]) : returned[1][1][i] = " "


\* the entries of the pattern list that match the Statement sql with its
\* quoted spans removed
MatchingPatterns(sql) ==
    {k \in DOMAIN ILLEGAL_OPERATION_PATTERNS :
        PatternSearch(ILLEGAL_OPERATION_PATTERNS[k], RemoveQuotedContent(sql))}

\* C24: the first failing check decides the error: candidate extraction, then
\* the blocklist patterns in their listed order, then the backtick checks.
C24_FirstFailingCheck ==
    \A t \in Calls :
        Finished(t) =>
            /\ sql_candidate[t] = <<>> => FailedWith(t, "NoStatementFound")
            /\ (final_sql[t] # <<>> /\ MatchingPatterns(final_sql[t][1]) # {})
               => /\ FailedWith(t, "BlockedOperation")
                  /\ failure[t][1].failed[2] =
                         ILLEGAL_OPERATION_PATTERNS[Min(MatchingPatterns(final_sql[t][1]))]
            /\ (final_sql[t] # <<>> /\ MatchingPatterns(final_sql[t][1]) = {}
                                    /\ BareBacktick(final_sql[t][1]))
               => FailedWith(t, "InvalidBacktick")

\* a Statement with a bare backtick that two patterns match (INSERT INTO and
\* INTO) was rejected
C24_Witness ==
    /\ Failed(1)
    /\ final_sql[1] # <<>>
    /\ BareBacktick(final_sql[1][1])
    /\ Cardinality(MatchingPatterns(final_sql[1][1])) >= 2


\* C25: the Security Validator only inspects: a returned string is, character
\* for character, the Statement that the Termination Resolver produced for
\* the Candidate.
C25_ValidatorOnlyInspects ==
    \A t \in Calls :
        returned[t] # <<>>
        => /\ returned[t] = final_sql[t]
           /\ returned[t][1] = ProcessTerminationPattern(sql_candidate[t][1])[2]

\* a Statement with a quoted span, which the scan removes from its working
\* copy, was returned
C25_Witness ==
    /\ Succeeded(1)
    /\ RemoveQuotedContent(returned[1][1]) # returned[1][1]


\* the keywords that C26 lists: every entry of the pattern list except
\* WITH ... RETURNING
ListedKeywords ==
    {k \in DOMAIN ILLEGAL_OPERATION_PATTERNS : ILLEGAL_OPERATION_PATTERNS[k] # "WITH\\s+RETURNING"}

\* a listed keyword stands in s as a whole word, in any letter case, with none
\* of its characters inside a quoted span
KeywordOutsideSpans(s) ==
    \E k \in ListedKeywords, i \in 1..Len(s) :
        LET e == KeywordEnd(s, i, Compiled(ILLEGAL_OPERATION_PATTERNS[k]))
        IN  /\ e # 0
            /\ Boundary(s, i)
            /\ Boundary(s, e)
            /\ (i..(e - 1)) \cap SpanPositions(s, 1) = {}

\* C26: no returned string contains a blocklisted keyword as a whole word
\* outside quoted spans, whatever follows the keyword.
C26_NoKeywordReturned ==
    \A t \in Calls :
        returned[t] # <<>> => ~KeywordOutsideSpans(returned[t][1])


\* C27: a returned string contains exactly one ";", its last character.
C27_OneSemicolonInTotal ==
    \A t \in Calls :
        returned[t] # <<>> =>
            /\ {i \in 1..Len(returned[t][1]) : returned[t][1][i] = ";"} = {Len(returned[t][1])}

\* a call has returned for a Candidate that holds two statements, each with
\* its ";"
C27_Witness ==
    /\ Succeeded(1)
    /\ \E i, j \in 1..Len(sql_candidate[1][1]) :
          /\ i + 1 < j
          /\ sql_candidate[1][1][i] = ";"
          /\ sql_candidate[1][1][j] = ";"


\* C28: every returned string contains SELECT as a whole word, in any letter
\* case.
C28_ReturnedHoldsSelect ==
    \A t \in Calls :
        returned[t] # <<>>
        => \E i \in 1..Len(returned[t][1]) : SelectWordAt(returned[t][1], i)

\* C29: whitespace around the input does not change the outcome: every input
\* has the outcome of the input without its leading and trailing whitespace.
C29_SurroundingWhitespace ==
    \A t \in Calls :
        Finished(t)
        => OutcomeOf(t) = Outcome(ExtractSql(Strip(input_text[t]), ILLEGAL_OPERATION_PATTERNS))

\* C29 as amended: whitespace around the input does not change the outcome
\* provided the input, with its comments replaced by spaces and without
\* trailing whitespace, does not end with a backtick (a closing fence is only
\* stripped when it is the very end of the text).
C29_SurroundingWhitespaceUnlessFence ==
    \A t \in Calls :
        (Finished(t) /\ ~EndsWith(RStrip(Uncommented(input_text[t])), Backtick))
        => OutcomeOf(t) = Outcome(ExtractSql(Strip(input_text[t]), ILLEGAL_OPERATION_PATTERNS))

\* a call has returned for an input with whitespace at both ends and an
\* opening fence
C29_Witness ==
    /\ Succeeded(1)
    /\ Len(input_text[1]) >= 3
    /\ IsSpace(input_text[1][1])
    /\ input_text[1][2] = Backtick
    /\ IsSpace(input_text[1][Len(input_text[1])])


\* the quoted spans of s, scanning left to right from index i, as pairs of
\* the indices of the opening and the closing quote
RECURSIVE Spans(_, _)
Spans(s, i) ==
    IF i > Len(s) THEN {}
    ELSE LET closes == {j \in (i + 1)..Len(s) : s[j] = s[i]}
         IN  IF s[i] \in {"'", "\""} /\ closes # {}
             THEN {<<i, Min(closes)>>} \cup Spans(s, Min(closes) + 1)
             ELSE Spans(s, i + 1)

\* the text w stands somewhere in s
Occurs(w, s) == \E k \in 1..Len(s) : LiteralAt(s, k, w)

\* C30: when the call succeeds, every quoted span of the statement given as
\* input appears verbatim, quotes and content, in the returned string.
C30_LiteralsVerbatim ==
    \A t \in Calls :
        Succeeded(t) =>
            \A sp \in Spans(input_text[t], 1) :
                Occurs(SubSeq(input_text[t], sp[1], sp[2]), returned[t][1])


====
